---- MODULE Spec2Model ----
(***************************************************************************)
(* Model of the Scopes tag-input editor                                    *)
(* (src/modules/form/src/addons/scopes.tsx).                               *)
(*                                                                         *)
(* A string is a sequence of one-character strings, so that split, join    *)
(* and trim are computed character by character.  A scope is the record    *)
(* [value |-> string], as ScopeInterface.  The component's React state     *)
(* (scopeValue, scopes, errorMessage), its props (value, defaultValue) and *)
(* the two passive effects are modelled with one step per handler and one  *)
(* step per effect run; React runs the pending effects and the re-render   *)
(* they cause before it handles the next event.  An undefined value prop   *)
(* behaves as the empty string (isEmpty is true of both).                  *)
(***************************************************************************)
EXTENDS Integers, Sequences, FiniteSets, TLC

\* Longest string the parent passes as value.
MaxValueLen == 4
\* Add is not attempted once the list holds this many scopes.
MaxScopes == 3

Alphabet == {"a", " "}
Whitespace == {" "}
EmptyStr == <<>>

StringsUpTo(n) == UNION {[1..k -> Alphabet] : k \in 0..n}
Values == StringsUpTo(MaxValueLen)
\* Field texts a change event reports: empty, only whitespace, a word with
\* and without outer whitespace, two words (typed or pasted).
Inputs ==
    { <<>>, <<" ">>, <<" ", " ">>,
      <<"a">>, <<" ", "a">>, <<"a", " ">>, <<" ", "a", " ">>,
      <<"a", "a">>, <<"a", " ", "a">> }
DefaultValues == {<<"a">>}

VARIABLES
    value,          \* props.value as of the committed render
    defaultValue,   \* props.defaultValue
    controlled,     \* TRUE: the parent's onChange stores the payload as value
    parentValue,    \* the value the parent passes on the next render
    scopeValue,     \* useState: pending input
    scopes,         \* useState: scope list of the committed render
    errorMessage,   \* useState: error message
    queued,         \* setScopes calls made by effects, not yet rendered
    effValue,       \* useEffect([value]) has to run for the committed render
    effScopes,      \* useEffect([scopes]) has to run for the committed render
    payload,        \* target.value of the last onChange invocation
    calls,          \* onChange invocations since the last event
    lastEvent       \* the last event handled

vars == <<value, defaultValue, controlled, parentValue, scopeValue, scopes,
          errorMessage, queued, effValue, effScopes, payload, calls, lastEvent>>

SCOPE_SEPARATOR == " "

\* lodash isEmpty on a string (or undefined).
isEmpty(s) == Len(s) = 0

buildScope(scope) == [value |-> scope]

buildScopeString(scope) == scope.value

\* String.prototype.split with a one-character separator.
RECURSIVE split(_, _)
split(s, sep) ==
    IF \A i \in 1..Len(s) : s[i] # sep
    THEN <<s>>
    ELSE LET i == CHOOSE j \in 1..Len(s) :
                     s[j] = sep /\ \A k \in 1..(j - 1) : s[k] # sep
         IN <<SubSeq(s, 1, i - 1)>> \o split(SubSeq(s, i + 1, Len(s)), sep)

\* Array.prototype.join.
RECURSIVE join(_, _)
join(strs, sep) ==
    IF Len(strs) = 0 THEN EmptyStr
    ELSE IF Len(strs) = 1 THEN strs[1]
    ELSE strs[1] \o <<sep>> \o join(Tail(strs), sep)

\* String.prototype.trim.
RECURSIVE trim(_)
trim(s) ==
    IF Len(s) = 0 THEN s
    ELSE IF s[1] \in Whitespace THEN trim(Tail(s))
    ELSE IF s[Len(s)] \in Whitespace THEN trim(SubSeq(s, 1, Len(s) - 1))
    ELSE s

\* Variant: the scopes joined by a comma.
buildScopesStringComma(scopeList) ==
    join([i \in 1..Len(scopeList) |-> buildScopeString(scopeList[i])], ",")

\* scopes?.map(buildScopeString)?.join(SCOPE_SEPARATOR)
buildScopesString(scopeList) ==
    join([i \in 1..Len(scopeList) |-> buildScopeString(scopeList[i])],
         SCOPE_SEPARATOR)

\* Variant: repeated substrings dropped while parsing.
RECURSIVE dropRepeated(_, _)
dropRepeated(output, rest) ==
    IF Len(rest) = 0 THEN output
    ELSE IF \E i \in 1..Len(output) : output[i] = rest[1]
         THEN dropRepeated(output, Tail(rest))
         ELSE dropRepeated(Append(output, rest[1]), Tail(rest))

parseScopesUnique(v) ==
    LET parts == dropRepeated(<<>>, split(v, SCOPE_SEPARATOR))
    IN [i \in 1..Len(parts) |-> buildScope(parts[i])]

\* Variant: split("") in place of split(" "), one scope per character.
parseScopesChars(v) == [i \in 1..Len(v) |-> buildScope(<<v[i]>>)]

\* value.split(SCOPE_SEPARATOR)?.map(buildScope)
parseScopes(v) ==
    LET parts == split(v, SCOPE_SEPARATOR)
    IN [i \in 1..Len(parts) |-> buildScope(parts[i])]

\* The forEach loop of handleScopeAdd: output is the list built so far.
RECURSIVE addLoop(_, _)
addLoop(output, rest) ==
    IF Len(rest) = 0 THEN output
    ELSE LET scope == rest[1]
             existing == SelectSeq(output, LAMBDA item : item.value = scope.value)
         IN IF Len(existing) # 0
            THEN addLoop(output, Tail(rest))
            ELSE addLoop(Append(output, scope), Tail(rest))

\* Variant: the loop skips only the scopes equal to the new one.
addOutputSkipNew(pending, scopeList) ==
    <<[value |-> pending]>> \o
        SelectSeq(scopeList, LAMBDA scope : scope.value # pending)

\* Variant: the loop appends every existing scope.
addOutputKeepAll(pending, scopeList) == <<[value |-> pending]>> \o scopeList

\* Variant: the new scope is put last.
addOutputLast(pending, scopeList) ==
    Append(SelectSeq(scopeList, LAMBDA scope : scope.value # pending),
           [value |-> pending])

addOutput(pending, scopeList) == addLoop(<<[value |-> pending]>>, scopeList)

\* Variant: only the first matching scope is removed.
removeOutputFirst(scopeList, scopeParam) ==
    IF \A i \in 1..Len(scopeList) : scopeList[i] # buildScope(scopeParam)
    THEN scopeList
    ELSE LET i == CHOOSE j \in 1..Len(scopeList) :
                     /\ scopeList[j] = buildScope(scopeParam)
                     /\ \A k \in 1..(j - 1) : scopeList[k] # buildScope(scopeParam)
         IN SubSeq(scopeList, 1, i - 1) \o SubSeq(scopeList, i + 1, Len(scopeList))

\* filter(scopes, scope => !isEqual(scope, buildScope(scopeParam)))
removeOutput(scopeList, scopeParam) ==
    SelectSeq(scopeList, LAMBDA scope : scope # buildScope(scopeParam))

\* No effect is pending and no re-render is due: the next event is handled.
Idle ==
    /\ ~effValue
    /\ ~effScopes
    /\ queued = <<>>
    /\ parentValue = value

Init ==
    /\ value \in Values
    /\ defaultValue \in DefaultValues
    /\ controlled \in BOOLEAN
    /\ parentValue = value
    /\ scopeValue = EmptyStr
    /\ scopes = <<>>
    /\ errorMessage = EmptyStr
    /\ queued = <<>>
    /\ effValue = TRUE
    /\ effScopes = TRUE
    /\ payload = EmptyStr
    /\ calls = 0
    /\ lastEvent = "mount"

\* The parent renders the editor with another value.
ChangeValue(v) ==
    /\ Idle
    /\ v # value
    /\ value' = v
    /\ parentValue' = v
    /\ effValue' = TRUE
    /\ calls' = 0
    /\ lastEvent' = "valueChange"
    /\ UNCHANGED <<defaultValue, controlled, scopeValue, scopes, errorMessage,
                   queued, effScopes, payload>>

\* Variant: the effect parses an empty value too.
ValueEffectNoGuard ==
    /\ effValue
    /\ effValue' = FALSE
    /\ queued' = Append(queued, parseScopes(value))
    /\ UNCHANGED <<value, defaultValue, controlled, parentValue, scopeValue,
                   scopes, errorMessage, effScopes, payload, calls, lastEvent>>

\* useEffect(() => {...}, [ value ])
ValueEffect ==
    /\ effValue
    /\ effValue' = FALSE
    /\ queued' = IF isEmpty(value) THEN queued
                 ELSE Append(queued, parseScopes(value))
    /\ UNCHANGED <<value, defaultValue, controlled, parentValue, scopeValue,
                   scopes, errorMessage, effScopes, payload, calls, lastEvent>>

\* Variant: the effect serializes the list passed to setScopes last, not the
\* list of the render it belongs to.
ScopesEffectLatest ==
    /\ ~effValue
    /\ effScopes
    /\ effScopes' = FALSE
    /\ payload' = buildScopesString(IF queued # <<>> THEN queued[Len(queued)]
                                    ELSE scopes)
    /\ calls' = calls + 1
    /\ parentValue' = IF controlled THEN payload' ELSE parentValue
    /\ UNCHANGED <<value, defaultValue, controlled, scopeValue, scopes,
                   errorMessage, queued, effValue, lastEvent>>

\* useEffect(() => { fireOnChangeEvent(scopes, onChange) }, [ scopes ])
ScopesEffect ==
    /\ ~effValue
    /\ effScopes
    /\ effScopes' = FALSE
    /\ payload' = buildScopesString(scopes)
    /\ calls' = calls + 1
    /\ parentValue' = IF controlled THEN payload' ELSE parentValue
    /\ UNCHANGED <<value, defaultValue, controlled, scopeValue, scopes,
                   errorMessage, queued, effValue, lastEvent>>

\* Variant: the scopes effect declared with an empty dependency list, so
\* that it runs for the first render only.
RerenderNoScopesEffect ==
    /\ ~effValue
    /\ ~effScopes
    /\ queued # <<>> \/ parentValue # value
    /\ scopes' = IF queued # <<>> THEN queued[Len(queued)] ELSE scopes
    /\ effScopes' = FALSE
    /\ value' = parentValue
    /\ effValue' = (parentValue # value)
    /\ queued' = <<>>
    /\ UNCHANGED <<defaultValue, controlled, parentValue, scopeValue,
                   errorMessage, payload, calls, lastEvent>>

\* The render that follows the effects' state updates.
Rerender ==
    /\ ~effValue
    /\ ~effScopes
    /\ queued # <<>> \/ parentValue # value
    /\ scopes' = IF queued # <<>> THEN queued[Len(queued)] ELSE scopes
    /\ effScopes' = (queued # <<>>)
    /\ value' = parentValue
    /\ effValue' = (parentValue # value)
    /\ queued' = <<>>
    /\ UNCHANGED <<defaultValue, controlled, parentValue, scopeValue,
                   errorMessage, payload, calls, lastEvent>>

\* Variant: trimStart in place of trim.
RECURSIVE trimStart(_)
trimStart(s) ==
    IF Len(s) = 0 THEN s
    ELSE IF s[1] \in Whitespace THEN trimStart(Tail(s))
    ELSE s

InputChangeTrimStart(raw) ==
    /\ Idle
    /\ scopeValue' = trimStart(raw)
    /\ calls' = 0
    /\ lastEvent' = "input"
    /\ UNCHANGED <<value, defaultValue, controlled, parentValue, scopes,
                   errorMessage, queued, effValue, effScopes, payload>>

\* Variant: the field value stored untrimmed.
InputChangeNoTrim(raw) ==
    /\ Idle
    /\ scopeValue' = raw
    /\ calls' = 0
    /\ lastEvent' = "input"
    /\ UNCHANGED <<value, defaultValue, controlled, parentValue, scopes,
                   errorMessage, queued, effValue, effScopes, payload>>

\* Form.Input onChange: setScopeValue(data.value.trim())
InputChange(raw) ==
    /\ Idle
    /\ scopeValue' = trim(raw)
    /\ calls' = 0
    /\ lastEvent' = "input"
    /\ UNCHANGED <<value, defaultValue, controlled, parentValue, scopes,
                   errorMessage, queued, effValue, effScopes, payload>>

\* Variant: leaving the field commits the pending input.
BlurAdds ==
    /\ Idle
    /\ calls' = 0
    /\ lastEvent' = "blur"
    /\ IF isEmpty(scopeValue)
       THEN UNCHANGED <<scopes, scopeValue, effScopes>>
       ELSE /\ Len(scopes) < MaxScopes
            /\ scopes' = addLoop(<<[value |-> scopeValue]>>, scopes)
            /\ scopeValue' = EmptyStr
            /\ effScopes' = TRUE
    /\ UNCHANGED <<value, defaultValue, controlled, parentValue, errorMessage,
                   queued, effValue, payload>>

\* Form.Input onBlur: forwarded to the parent.
Blur ==
    /\ Idle
    /\ calls' = 0
    /\ lastEvent' = "blur"
    /\ UNCHANGED <<value, defaultValue, controlled, parentValue, scopeValue,
                   scopes, errorMessage, queued, effValue, effScopes, payload>>

\* Variant: add that leaves the pending input in the field.
handleScopeAddKeepInput ==
    /\ Idle
    /\ calls' = 0
    /\ lastEvent' = "add"
    /\ IF isEmpty(scopeValue)
       THEN UNCHANGED <<scopes, errorMessage, effScopes>>
       ELSE /\ Len(scopes) < MaxScopes
            /\ errorMessage' = EmptyStr
            /\ scopes' = addLoop(<<[value |-> scopeValue]>>, scopes)
            /\ effScopes' = TRUE
    /\ UNCHANGED <<value, defaultValue, controlled, parentValue, scopeValue,
                   queued, effValue, payload>>

\* Variant: add without the empty-input return.
handleScopeAddNoGuard ==
    /\ Idle
    /\ calls' = 0
    /\ lastEvent' = "add"
    /\ Len(scopes) < MaxScopes
    /\ errorMessage' = EmptyStr
    /\ scopes' = addLoop(<<[value |-> scopeValue]>>, scopes)
    /\ scopeValue' = EmptyStr
    /\ effScopes' = TRUE
    /\ UNCHANGED <<value, defaultValue, controlled, parentValue, queued,
                   effValue, payload>>

\* handleScopeAdd, from the Enter key or the add button.
handleScopeAdd ==
    /\ Idle
    /\ calls' = 0
    /\ lastEvent' = "add"
    /\ IF isEmpty(scopeValue)
       THEN UNCHANGED <<scopes, scopeValue, errorMessage, effScopes>>
       ELSE /\ Len(scopes) < MaxScopes
            /\ errorMessage' = EmptyStr
            /\ scopes' = addOutput(scopeValue, scopes)
            /\ scopeValue' = EmptyStr
            /\ effScopes' = TRUE
    /\ UNCHANGED <<value, defaultValue, controlled, parentValue, queued,
                   effValue, payload>>

\* Variant: remove without the empty-parameter return.
handleLabelRemoveNoGuard(scopeParam) ==
    /\ Idle
    /\ calls' = 0
    /\ lastEvent' = "remove"
    /\ scopes' = removeOutput(scopes, scopeParam)
    /\ effScopes' = TRUE
    /\ UNCHANGED <<value, defaultValue, controlled, parentValue, scopeValue,
                   errorMessage, queued, effValue, payload>>

handleLabelRemove(scopeParam) ==
    /\ Idle
    /\ calls' = 0
    /\ lastEvent' = "remove"
    /\ IF isEmpty(scopeParam)
       THEN UNCHANGED <<scopes, effScopes>>
       ELSE /\ scopes' = removeOutput(scopes, scopeParam)
            /\ effScopes' = TRUE
    /\ UNCHANGED <<value, defaultValue, controlled, parentValue, scopeValue,
                   errorMessage, queued, effValue, payload>>

\* Variant: the delete icon rendered on every tag.
DeleteIconClickAnyTag(index) ==
    /\ index \in 1..Len(scopes)
    /\ handleLabelRemove(scopes[index].value)

\* The delete icon, rendered on the tags whose value is not defaultValue.
DeleteIconClick(index) ==
    /\ index \in 1..Len(scopes)
    /\ scopes[index].value # defaultValue
    /\ handleLabelRemove(scopes[index].value)

\* handleLabelRemove called with any string, the tag rendering bypassed.
RemoveCall(scopeParam) == handleLabelRemove(scopeParam)

Next ==
    \/ \E v \in Values : ChangeValue(v)
    \/ ValueEffect
    \/ ScopesEffect
    \/ Rerender
    \/ \E raw \in Inputs : InputChange(raw)
    \/ Blur
    \/ handleScopeAdd
    \/ \E index \in 1..(MaxValueLen + MaxScopes) : DeleteIconClick(index)

Spec == Init /\ [][Next]_vars

NextCall ==
    \/ Next
    \/ \E scopeParam \in Inputs : RemoveCall(scopeParam)

SpecCall == Init /\ [][NextCall]_vars

\* The editor under a parent that stores every onChange payload as value
\* and changes value in no other way.  React runs every pending effect and
\* every render that is due.
InitControlled == Init /\ controlled

NextControlled ==
    \/ ValueEffect
    \/ ScopesEffect
    \/ Rerender
    \/ \E raw \in Inputs : InputChange(raw)
    \/ Blur
    \/ handleScopeAdd
    \/ \E index \in 1..(MaxValueLen + MaxScopes) : DeleteIconClick(index)

SpecControlled ==
    /\ InitControlled
    /\ [][NextControlled]_vars
    /\ WF_vars(ValueEffect)
    /\ WF_vars(ScopesEffect)
    /\ WF_vars(Rerender)

TypeOK ==
    /\ controlled \in BOOLEAN
    /\ effValue \in BOOLEAN
    /\ effScopes \in BOOLEAN
    /\ Len(queued) <= 1
    /\ calls \in 0..4
    /\ errorMessage = EmptyStr

(***************************************************************************)
(* Vocabulary of the properties.                                           *)
(***************************************************************************)

\* The token values of a scope list, in list order.
Tokens(scopeList) == [i \in 1..Len(scopeList) |-> scopeList[i].value]

NoDuplicates(scopeList) ==
    \A i, j \in 1..Len(scopeList) :
        i # j => scopeList[i].value # scopeList[j].value

Contains(scopeList, token) ==
    \E i \in 1..Len(scopeList) : scopeList[i].value = token

\* Position before the first character of token i in the serialization.
RECURSIVE Offset(_, _)
Offset(tokens, i) ==
    IF i = 1 THEN 0 ELSE Offset(tokens, i - 1) + Len(tokens[i - 1]) + 1

\* str is the tokens in order with exactly one space between neighbours.
IsSpaceJoined(str, tokens) ==
    IF Len(tokens) = 0 THEN Len(str) = 0
    ELSE /\ Len(str) = Offset(tokens, Len(tokens)) + Len(tokens[Len(tokens)])
         /\ \A i \in 1..Len(tokens) :
              /\ \A k \in 1..Len(tokens[i]) :
                    str[Offset(tokens, i) + k] = tokens[i][k]
              /\ i < Len(tokens) =>
                    str[Offset(tokens, i) + Len(tokens[i]) + 1] = " "

HasSpace(str) == \E k \in 1..Len(str) : str[k] = " "

\* tokens are the substrings of str between its spaces, in order.
IsSpaceSplit(tokens, str) ==
    /\ Len(tokens) >= 1
    /\ \A i \in 1..Len(tokens) : ~HasSpace(tokens[i])
    /\ IsSpaceJoined(str, tokens)

\* tokens with every occurrence of token deleted, the order kept.
RECURSIVE Without(_, _)
Without(tokens, token) ==
    IF Len(tokens) = 0 THEN <<>>
    ELSE IF tokens[1] = token THEN Without(Tail(tokens), token)
    ELSE <<tokens[1]>> \o Without(Tail(tokens), token)

AllWhitespace(str) == \A k \in 1..Len(str) : str[k] \in Whitespace

\* The step is an add (resp. remove) event; effects run only when not Idle.
AddCommits == Idle /\ lastEvent' = "add" /\ ~isEmpty(scopeValue)
AddIgnored == Idle /\ lastEvent' = "add" /\ isEmpty(scopeValue)

(***************************************************************************)
(* C1                                                                      *)
(***************************************************************************)

C2_NotifyAfterCommit ==
    [][ /\ (Idle /\ lastEvent' \in {"add", "remove"} /\ scopes' # scopes)
            => (effScopes' /\ ~effValue')
        /\ (lastEvent \in {"add", "remove"} /\ effScopes)
            => /\ ~effScopes'
               /\ calls' = calls + 1
               /\ IsSpaceJoined(payload', Tokens(scopes))
               /\ scopes' = scopes
               /\ scopeValue' = scopeValue
               /\ lastEvent' = lastEvent ]_vars

\* onChange has fired once for a list of three tokens committed by an add.
C2_Witness ==
    /\ lastEvent = "add"
    /\ ~effScopes
    /\ calls = 1
    /\ Len(scopes) = 3
    /\ IsSpaceJoined(payload, Tokens(scopes))

(***************************************************************************)
(* C3                                                                      *)
(***************************************************************************)

\* C3: an add with non-empty pending input x on a list L without equal
\* tokens commits x followed by the tokens of L other than x in their order.
C3_AddFront ==
    [][ (AddCommits /\ NoDuplicates(scopes))
            => Tokens(scopes') =
                   <<scopeValue>> \o Without(Tokens(scopes), scopeValue) ]_vars

\* An add has just put "aa" in front of two other tokens.
C3_Witness ==
    /\ lastEvent = "add"
    /\ effScopes
    /\ Len(scopes) = 3
    /\ scopes[1].value = <<"a", "a">>
    /\ NoDuplicates(scopes)

(***************************************************************************)
(* C4                                                                      *)
(***************************************************************************)

\* C4: remove called with a non-empty string s commits the list with every
\* token equal to s deleted and the others in their order; when no token
\* equals s the list is unchanged.
C4_Remove ==
    [][ lastEvent' = "remove" =>
            \A s \in Inputs :
                (RemoveCall(s) /\ ~isEmpty(s))
                    => /\ Tokens(scopes') = Without(Tokens(scopes), s)
                       /\ ~Contains(scopes, s) => scopes' = scopes ]_vars

\* A remove has just emptied a list loaded from "a a".
C4_Witness ==
    /\ lastEvent = "remove"
    /\ effScopes
    /\ scopes = <<>>
    /\ value = <<"a", " ", "a">>
    /\ ~controlled

(***************************************************************************)
(* C5                                                                      *)
(***************************************************************************)

\* C5: a change event whose field text is only whitespace leaves the pending
\* input empty, and an add with empty pending input leaves the scope list
\* unchanged, schedules no onChange and leaves the editor waiting for the
\* next event.
C5_EmptyAddNoOp ==
    [][ /\ lastEvent' = "input" =>
              \A raw \in Inputs :
                  (InputChange(raw) /\ AllWhitespace(raw))
                      => scopeValue' = EmptyStr
        /\ AddIgnored
              => /\ scopes' = scopes
                 /\ payload' = payload
                 /\ calls' = 0
                 /\ Idle' ]_vars

\* An add was ignored on a populated list: no onChange since the event.
C5_Witness ==
    /\ lastEvent = "add"
    /\ Idle
    /\ calls = 0
    /\ Len(scopes) >= 2
    /\ scopeValue = EmptyStr

(***************************************************************************)
(* C6                                                                      *)
(***************************************************************************)

\* C6: a value prop that becomes a non-empty string s makes the value effect
\* run next, and the list then committed is exactly the substrings of s
\* between single spaces, in order, repeated ones included, whatever the
\* list was.
C6_Resync ==
    [][ /\ (value' # value /\ ~isEmpty(value')) => effValue'
        /\ (effValue /\ ~isEmpty(value)) => (~effValue' /\ queued' # <<>>)
        /\ (queued # <<>> /\ queued' = <<>>)
              => IsSpaceSplit(Tokens(scopes'), value) ]_vars

\* The editor has resynchronised to "a a" after local edits were made.
C6_Witness ==
    /\ lastEvent = "valueChange"
    /\ Idle
    /\ value = <<"a", " ", "a">>
    /\ Tokens(scopes) = << <<"a">>, <<"a">> >>
    /\ scopeValue # EmptyStr

(***************************************************************************)
(* C7                                                                      *)
(***************************************************************************)

\* C7: when the value prop becomes empty the scope list is left unchanged,
\* by the change itself and by the value effect that follows it; this holds
\* too when the empty value is the parent's feedback of an empty payload.
C7_EmptyValueKeepsList ==
    [][ /\ (lastEvent' = "valueChange" /\ isEmpty(value'))
            => (scopes' = scopes /\ queued' = <<>>)
        /\ (value' # value /\ isEmpty(value') /\ scopes # <<>>)
            => scopes' = scopes ]_vars

\* The value effect has run for an empty value; the list is still populated.
C7_Witness ==
    /\ lastEvent = "valueChange"
    /\ isEmpty(value)
    /\ Idle
    /\ Len(scopes) >= 2

(***************************************************************************)
(* C8                                                                      *)
(***************************************************************************)

\* Non-empty strings without whitespace, and the lists of distinct ones.
CleanTokens ==
    {str \in Values : Len(str) > 0 /\ \A k \in 1..Len(str) : str[k] \notin Whitespace}

CleanLists ==
    {tokens \in UNION {[1..n -> CleanTokens] : n \in 0..2} :
        \A i, j \in 1..Len(tokens) : i # j => tokens[i] # tokens[j]}

\* The value prop is the serialization of tokens and parse-on-load has run.
Reparsed(tokens) ==
    /\ lastEvent \in {"mount", "valueChange"}
    /\ Idle
    /\ value = buildScopesString([i \in 1..Len(tokens) |-> buildScope(tokens[i])])

\* C8 as stated: for every list of distinct clean tokens, the empty list
\* included, the editor's list equals it once its serialization is parsed.
C8_RoundTripAny ==
    \A tokens \in CleanLists : Reparsed(tokens) => Tokens(scopes) = tokens

\* C8 (amended): for every list [t1..tn] with n >= 1 of distinct, non-empty,
\* whitespace-free tokens, the editor's list equals it once its serialization
\* is parsed; the serialization of the empty list is the empty string, which
\* parse-on-load ignores.
C8_RoundTrip ==
    \A tokens \in CleanLists :
        (Len(tokens) >= 1 /\ Reparsed(tokens)) => Tokens(scopes) = tokens

\* "aa a" has been parsed over a list that held a pasted token.
C8_Witness ==
    /\ lastEvent = "valueChange"
    /\ Idle
    /\ value = <<"a", "a", " ", "a">>
    /\ Tokens(scopes) = << <<"a", "a">>, <<"a">> >>

(***************************************************************************)
(* C9                                                                      *)
(***************************************************************************)

\* C9: as long as the parent does not change the value prop, a token equal
\* to defaultValue that is in the list stays in the list through keystrokes,
\* adds and clicks on the rendered delete icons.
C9_DefaultStays ==
    [][ (lastEvent' # "valueChange" /\ Contains(scopes, defaultValue))
            => Contains(scopes', defaultValue) ]_vars

\* A delete icon was clicked and the default scope is still in the list.
C9_Witness ==
    /\ lastEvent = "remove"
    /\ effScopes
    /\ Len(scopes) >= 1
    /\ Contains(scopes, defaultValue)

(***************************************************************************)
(* C10                                                                     *)
(***************************************************************************)

\* C10 as stated: every token of the list is non-empty and contains no
\* whitespace.
C10_CleanTokens ==
    \A i \in 1..Len(scopes) :
        /\ Len(scopes[i].value) > 0
        /\ \A k \in 1..Len(scopes[i].value) : scopes[i].value[k] \notin Whitespace

\* C10 (amended): no token of the list begins or ends with a space.  A token
\* may be empty (consecutive, leading or trailing separators in the external
\* string) and may contain whitespace inside (text pasted into the input).
C10_NoOuterSpace ==
    \A i \in 1..Len(scopes) :
        LET token == scopes[i].value
        IN Len(token) > 0 => (token[1] # " " /\ token[Len(token)] # " ")

\* An add has committed the pasted token "a a".
C10_Witness ==
    /\ lastEvent = "add"
    /\ Contains(scopes, <<"a", " ", "a">>)
    /\ Contains(scopes, EmptyStr)
(***************************************************************************)
(* C11                                                                     *)
(***************************************************************************)

\* C11: a keystroke or a blur leaves the scope list unchanged, runs no
\* onChange and leaves the editor waiting for the next event; the scope list
\* changes only in an add, in a remove, or in the render that commits the
\* list parsed by the value effect.
C11_OnlyAddRemoveParse ==
    [][ /\ (Idle /\ lastEvent' \in {"input", "blur"})
            => /\ scopes' = scopes
               /\ payload' = payload
               /\ calls' = 0
               /\ Idle'
        /\ (scopes' # scopes)
            => \/ (Idle /\ lastEvent' \in {"add", "remove"})
               \/ (queued # <<>> /\ queued' = <<>> /\ scopes' = queued[Len(queued)])
      ]_vars

\* The field lost focus with text pending and a populated list: nothing ran.
C11_Witness ==
    /\ lastEvent = "blur"
    /\ Idle
    /\ calls = 0
    /\ ~isEmpty(scopeValue)
    /\ Len(scopes) >= 2
(***************************************************************************)
(* C12                                                                     *)
(***************************************************************************)

\* C12: every add that commits sets the pending input to the empty string
\* and leaves the error message empty; the pending input is empty as long as
\* add is the last event, so an add that follows an add with no keystroke in
\* between leaves the list unchanged and runs no effect; the error message
\* is the empty string in every reachable state.
C12_AddResetsInput ==
    /\ [](errorMessage = EmptyStr)
    /\ [](lastEvent = "add" => isEmpty(scopeValue))
    /\ [][ /\ AddCommits => (scopeValue' = EmptyStr /\ errorMessage' = EmptyStr)
           /\ (Idle /\ lastEvent = "add" /\ lastEvent' = "add")
                => (scopes' = scopes /\ payload' = payload /\ Idle') ]_vars

\* An add was triggered with nothing typed since the last add: ignored.
C12_Witness ==
    /\ lastEvent = "add"
    /\ Idle
    /\ calls = 0
    /\ isEmpty(scopeValue)
    /\ Len(scopes) = 3
    /\ NoDuplicates(scopes)
(***************************************************************************)
(* C13                                                                     *)
(***************************************************************************)

\* C13: in every reachable state the pending input neither begins nor ends
\* with a whitespace character.
C13_PendingTrimmed ==
    Len(scopeValue) > 0 =>
        /\ scopeValue[1] \notin Whitespace
        /\ scopeValue[Len(scopeValue)] \notin Whitespace

\* A keystroke has stored two words, the whitespace between them kept.
C13_Witness ==
    /\ lastEvent = "input"
    /\ scopeValue = <<"a", " ", "a">>
    /\ Len(scopes) >= 1
(***************************************************************************)
(* C14                                                                     *)
(***************************************************************************)

\* C14: remove called with the empty string leaves the list unchanged and
\* runs no effect; a list that holds an empty-valued token still holds one
\* after any remove, whatever its parameter, and after the effects the
\* remove causes.
C14_EmptyTokenStays ==
    [][ lastEvent' = "remove" =>
            /\ RemoveCall(EmptyStr) => (scopes' = scopes /\ Idle')
            /\ Contains(scopes, EmptyStr) => Contains(scopes', EmptyStr) ]_vars

\* A remove with the empty string was ignored on a list parsed from a value
\* with consecutive separators: the empty token is still there.
C14_Witness ==
    /\ lastEvent = "remove"
    /\ Idle
    /\ calls = 0
    /\ value = <<"a", " ", " ", "a">>
    /\ Tokens(scopes) = << <<"a">>, <<>>, <<"a">> >>
(***************************************************************************)
(* C15                                                                     *)
(***************************************************************************)

\* C15: under a parent that feeds every payload back as value, after the
\* mount and after every keystroke, blur, add and remove: whenever an
\* effect or a render is pending the editor reaches a state with none
\* pending; onChange runs at most three times per event; and in a state with
\* nothing pending, once onChange has run for the last event, the value prop
\* is the tokens of the scope list joined by single spaces.
C15_LoopTerminates ==
    /\ (~Idle) ~> Idle
    /\ [](calls <= 3)
    /\ []((Idle /\ calls >= 1) => IsSpaceJoined(value, Tokens(scopes)))

\* The loop has ended after an add: onChange ran twice, for the list added
\* to and for the list parsed from the payload fed back.
C15_Witness ==
    /\ controlled
    /\ lastEvent = "add"
    /\ Idle
    /\ calls = 2
    /\ Len(scopes) >= 2
    /\ IsSpaceJoined(value, Tokens(scopes))
(***************************************************************************)
(* C16                                                                     *)
(***************************************************************************)

\* C16: the first onChange invocation after mount runs while the list is
\* still the initial empty list and carries the empty string, whatever the
\* value prop is; when the editor has come to rest after one invocation only,
\* nothing was parsed; every later invocation for the mount carries the
\* serialization of the non-empty parsed list.
C16_FirstPayloadEmpty ==
    /\ []((lastEvent = "mount" /\ calls = 0) => scopes = <<>>)
    /\ []((lastEvent = "mount" /\ calls = 1) => isEmpty(payload))
    /\ []((lastEvent = "mount" /\ calls = 1 /\ Idle) => scopes = <<>>)
    /\ []((lastEvent = "mount" /\ calls >= 2)
            => (scopes # <<>> /\ IsSpaceJoined(payload, Tokens(scopes))))
    /\ [][ (lastEvent = "mount" /\ calls' = 1 /\ calls = 0)
            => (scopes = <<>> /\ isEmpty(payload')) ]_vars

\* onChange has run once, with the empty string, for a mount with "a aa";
\* the parsed list waits for the next render.
C16_Witness ==
    /\ lastEvent = "mount"
    /\ calls = 1
    /\ isEmpty(payload)
    /\ value = <<"a", " ", "a", "a">>
    /\ queued # <<>>
    /\ scopes = <<>>
(***************************************************************************)
(* C17                                                                     *)
(***************************************************************************)

\* tokens with every occurrence after the first of each value deleted.
FirstOccurrences(tokens) ==
    LET keep == {i \in 1..Len(tokens) : \A j \in 1..(i - 1) : tokens[j] # tokens[i]}
        F[i \in 0..Len(tokens)] ==
            IF i = 0 THEN <<>>
            ELSE IF i \in keep THEN Append(F[i - 1], tokens[i]) ELSE F[i - 1]
    IN F[Len(tokens)]

\* C17: an add that commits on a list that holds equal tokens leaves a list
\* without equal tokens: the new token, then the first occurrence of every
\* other value of the previous list, in their order.
C17_AddDeduplicates ==
    [][ (AddCommits /\ ~NoDuplicates(scopes))
            => /\ NoDuplicates(scopes')
               /\ Tokens(scopes') =
                      <<scopeValue>> \o
                          FirstOccurrences(Without(Tokens(scopes), scopeValue))
      ]_vars

\* An add of "a" has just committed on the list of two empty tokens parsed
\* from " ", whose serialization was the last payload.
C17_Witness ==
    /\ lastEvent = "add"
    /\ effScopes
    /\ calls = 0
    /\ payload = <<" ">>
    /\ Tokens(scopes) = << <<"a">>, <<>> >>
====
